---- MODULE Spec2Model ----
(***************************************************************************)
(* Step/section navigator of src/utils/observer.js (initObserver).         *)
(*                                                                         *)
(* The closure state of initObserver (sectionIndex, stepIndex,             *)
(* isAnimating, activeOutside), the part of the DOM it owns (children of   *)
(* #device-content, children of the outside layers, yPercent of the        *)
(* sections) and the GSAP tweens / timeline it has started are the state.  *)
(* Time advances in animation frames of FrameMs milliseconds; a tween or   *)
(* timeline callback runs in the frame in which its elapsed time reaches   *)
(* its duration / position, as the GSAP ticker does.  Input events and the *)
(* teardown function run between frames.                                   *)
(***************************************************************************)
EXTENDS Integers, Sequences, FiniteSets, TLC

\* ------------------------------------------------------------------ bounds
MaxSections == 2      \* layouts have 0..MaxSections sections
MaxSteps == 3         \* a section has 0..MaxSteps step templates
FrameMs == 20         \* milliseconds between two ticks of the animation engine

\* ------------------------------------------------------------------ config
OFFSCREEN_OFFSET == 40

\* DURATION, in milliseconds (the source gives seconds)
stepFadeOut == 80
stepEnter == 140
outsideEnter == 120
outsideExit == 100
sectionSlide == 220

\* position of the content-swap callback on the section timeline:
\* DURATION.sectionSlide * 0.7
SwapPosition == (sectionSlide * 7) \div 10

\* ------------------------------------------------------------------ DOM
\* the ids outside-left / -right / -top / -bottom: keys of outsideLayers
OutsideLayers == {"left", "right", "top", "bottom"}

\* dataset.step of a template that has no data-step attribute
NoAttr == "undefined"

\* stand-in for NaN: Number() of a non-numeric string; it equals no step index
NaN == -1

\* Number(tpl.dataset.step)
NumberOf(str) ==
    CASE str = "0" -> 0
      [] str = "1" -> 1
      [] str = "2" -> 2
      [] str = "3" -> 3
      [] str = "4" -> 4
      [] str = "" -> 0
      [] OTHER -> NaN

\* The step templates of a section with n steps; template e (1-based, 0 = none)
\* has no element child in its content.
StepTemplates(n, e) ==
    [i \in 1..n |->
        [hasNode |-> (i # e),
         enter |-> CASE i % 3 = 1 -> "left" [] i % 3 = 2 -> "" [] OTHER -> "right"]]

\* Outside templates of the spec's scenario: step 0 left, step 1 top.
OutsidePlain ==
    << [step |-> "0", position |-> "left", hasNode |-> TRUE],
       [step |-> "1", position |-> "top", hasNode |-> TRUE] >>

\* Outside templates that exercise the per-item skips of showOutside: a position
\* with no layer, a template without element content, a missing data-step.
OutsideMixed ==
    << [step |-> "0", position |-> "right", hasNode |-> TRUE],
       [step |-> "1", position |-> "bottom", hasNode |-> TRUE],
       [step |-> "1", position |-> "center", hasNode |-> TRUE],
       [step |-> "0", position |-> "left", hasNode |-> FALSE],
       [step |-> NoAttr, position |-> "top", hasNode |-> TRUE] >>

\* The .section elements a page is built from.
SectionKinds ==
    { [steps |-> StepTemplates(n, 0), outside |-> OutsidePlain] : n \in 0..MaxSteps }
    \cup
    { [steps |-> StepTemplates(n, n), outside |-> OutsideMixed] : n \in 1..MaxSteps }

\* gsap.utils.toArray(".section"): every page with 0..MaxSections sections
Layouts == UNION { [1..n -> SectionKinds] : n \in 0..MaxSections }

\* ------------------------------------------------------------------ state
VARIABLES
    sections,         \* the .section elements (static)
    deviceContent,    \* TRUE iff #device-content exists
    pc,               \* "start" | "aborted" | "running": progress of initObserver
    destroyed,        \* the returned teardown function has been called
    observer,         \* the Observer instance is alive
    keydown,          \* onKeyDown is registered on window
    sectionIndex,
    stepIndex,
    isAnimating,
    activeOutside,    \* sequence of outside nodes
    deviceChildren,   \* children of #device-content
    layerChildren,    \* outside nodes attached to an outside layer
    yPercent,         \* yPercent of each section; <<>> before it is first set
    deviceTweens,     \* tweens on device content (fade-out, enter)
    outsideTweens,    \* tweens on outside nodes (enter, exit)
    timelines,        \* section-slide timelines in flight
    lastEvent         \* the handler that ran last and how it ended

progVars == << sections, deviceContent, pc, destroyed, observer, keydown,
               sectionIndex, stepIndex, isAnimating, activeOutside,
               deviceChildren, layerChildren, yPercent, deviceTweens,
               outsideTweens, timelines >>

vars == << sections, deviceContent, pc, destroyed, observer, keydown,
           sectionIndex, stepIndex, isAnimating, activeOutside,
           deviceChildren, layerChildren, yPercent, deviceTweens,
           outsideTweens, timelines, lastEvent >>

\* ------------------------------------------------------------------ helpers
Range(seq) == { seq[i] : i \in 1..Len(seq) }

MinOf(S) == CHOOSE x \in S : \A y \in S : x <= y

MaxOf(a, b) == IF a >= b THEN a ELSE b

\* sections[i] with the 0-based index of the source
SectionAt(i) == sections[i + 1]

getStepTemplates(sectionEl) == SectionAt(sectionEl).steps

getOutsideTemplates(sectionEl) == SectionAt(sectionEl).outside

\* forward entry without the clamp to the last step
getEntryStepIndex_noClamp(sectionEl, direction) ==
    LET steps == SectionAt(sectionEl).steps
        last == MaxOf(Len(steps) - 1, 0)
    IN  IF direction > 0 THEN 1 ELSE last

\* forward entry at the last step, as for backward
getEntryStepIndex_alwaysLast(sectionEl, direction) ==
    MaxOf(Len(SectionAt(sectionEl).steps) - 1, 0)

\* the direction is ignored: every entry is a forward entry
getEntryStepIndex_alwaysForward(sectionEl, direction) ==
    LET last == MaxOf(Len(SectionAt(sectionEl).steps) - 1, 0)
    IN  IF 1 <= last THEN 1 ELSE last

\* forward entry at the first step
getEntryStepIndex_forwardFirst(sectionEl, direction) ==
    IF direction > 0 THEN 0 ELSE MaxOf(Len(SectionAt(sectionEl).steps) - 1, 0)

getEntryStepIndex(sectionEl, direction) ==
    LET steps == getStepTemplates(sectionEl)
        last == MaxOf(Len(steps) - 1, 0)
    IN  IF direction > 0
        THEN (IF 1 <= last THEN 1 ELSE last)
        ELSE last

\* The mutable state a handler works on, as one record.
Cur ==
    [sectionIndex |-> sectionIndex, stepIndex |-> stepIndex,
     isAnimating |-> isAnimating, activeOutside |-> activeOutside,
     deviceChildren |-> deviceChildren, layerChildren |-> layerChildren,
     yPercent |-> yPercent, deviceTweens |-> deviceTweens,
     outsideTweens |-> outsideTweens, timelines |-> timelines]

Commit(s) ==
    /\ sectionIndex' = s.sectionIndex
    /\ stepIndex' = s.stepIndex
    /\ isAnimating' = s.isAnimating
    /\ activeOutside' = s.activeOutside
    /\ deviceChildren' = s.deviceChildren
    /\ layerChildren' = s.layerChildren
    /\ yPercent' = s.yPercent
    /\ deviceTweens' = s.deviceTweens
    /\ outsideTweens' = s.outsideTweens
    /\ timelines' = s.timelines

\* ------------------------------------------------------------------ outside content
\* the clone gets the smallest id no attached clone of the same template has
FreshId(lc, sectionEl, k) ==
    MinOf({ i \in 0..Cardinality(lc) :
              \A n \in lc : ~(n.sec = sectionEl /\ n.tpl = k /\ n.id = i) })

\* hideOutside that forgets the nodes without animating them out
hideOutside_noExit(s) ==
    [s EXCEPT
        !.outsideTweens = { t \in @ : t.node \notin Range(s.activeOutside) },
        !.activeOutside = << >>]

hideOutside(s) ==
    IF Len(s.activeOutside) = 0
    THEN s
    ELSE [s EXCEPT
            \* gsap.killTweensOf(node), then the exit tween of every active node
            !.outsideTweens =
                { t \in @ : t.node \notin Range(s.activeOutside) }
                \cup { [kind |-> "exit", node |-> n, elapsed |-> 0] :
                         n \in Range(s.activeOutside) },
            !.activeOutside = << >>]

RECURSIVE showOutsideFrom(_, _, _, _)
showOutsideFrom(s, sectionEl, step, k) ==
    LET templates == getOutsideTemplates(sectionEl)
    IN  IF k > Len(templates)
        THEN s
        ELSE LET tpl == templates[k]
                 tplStep == NumberOf(tpl.step)
                 position == tpl.position
                 node == [sec |-> sectionEl, tpl |-> k, position |-> position,
                          id |-> FreshId(s.layerChildren, sectionEl, k)]
             IN  IF tplStep # step
                 THEN showOutsideFrom(s, sectionEl, step, k + 1)
                 ELSE IF position \notin OutsideLayers
                 THEN showOutsideFrom(s, sectionEl, step, k + 1)
                 ELSE IF ~tpl.hasNode
                 THEN showOutsideFrom(s, sectionEl, step, k + 1)
                 ELSE showOutsideFrom(
                        [s EXCEPT
                           !.layerChildren = @ \cup {node},
                           !.outsideTweens =
                               @ \cup {[kind |-> "enter", node |-> node, elapsed |-> 0]},
                           !.activeOutside = Append(@, node)],
                        sectionEl, step, k + 1)

\* data-step compared as a string with the step number: nothing ever matches
showOutside_noNumber(s, sectionEl, step) == s

showOutside(s, sectionEl, step) == showOutsideFrom(s, sectionEl, step, 1)

\* ------------------------------------------------------------------ device content
\* renderDeviceStep that never sets the busy flag
renderDeviceStep_noFlag(s, sectionEl, step) ==
    LET killed == { t \in s.deviceTweens : t.targets \cap Range(s.deviceChildren) = {} }
        templates == getStepTemplates(sectionEl)
        s1 == [s EXCEPT !.deviceTweens = killed]
    IN  IF step + 1 > Len(templates)
        THEN s1
        ELSE IF ~templates[step + 1].hasNode
        THEN s1
        ELSE [s1 EXCEPT
                !.deviceTweens =
                    @ \cup {[kind |-> "fadeOut",
                             targets |-> Range(s.deviceChildren),
                             node |-> [sec |-> sectionEl, step |-> step],
                             fromX |-> 0, elapsed |-> 0]}]

\* renderDeviceStep that sets the busy flag before it looks for the template
renderDeviceStep_flagFirst(s, sectionEl, step) ==
    LET killed == { t \in s.deviceTweens : t.targets \cap Range(s.deviceChildren) = {} }
        templates == getStepTemplates(sectionEl)
        s1 == [s EXCEPT !.deviceTweens = killed, !.isAnimating = TRUE]
    IN  IF step + 1 > Len(templates)
        THEN s1
        ELSE IF ~templates[step + 1].hasNode
        THEN s1
        ELSE [s1 EXCEPT
                !.deviceTweens =
                    @ \cup {[kind |-> "fadeOut",
                             targets |-> Range(s.deviceChildren),
                             node |-> [sec |-> sectionEl, step |-> step],
                             fromX |-> 0, elapsed |-> 0]}]

\* The fade-out tween is created on the children #device-content has at the
\* call (none at the first render); it runs for its duration and calls
\* onComplete whatever the number of its targets.
renderDeviceStep(s, sectionEl, step) ==
    LET \* gsap.killTweensOf(deviceContent.children)
        killed == { t \in s.deviceTweens : t.targets \cap Range(s.deviceChildren) = {} }
        templates == getStepTemplates(sectionEl)
        s1 == [s EXCEPT !.deviceTweens = killed]
    IN  IF step + 1 > Len(templates)
        THEN s1
        ELSE LET tpl == templates[step + 1]
                 enter == IF tpl.enter = "" THEN "center" ELSE tpl.enter
                 fromX == IF enter = "left" THEN -OFFSCREEN_OFFSET
                          ELSE IF enter = "right" THEN OFFSCREEN_OFFSET
                          ELSE 0
                 node == [sec |-> sectionEl, step |-> step]
             IN  IF ~tpl.hasNode
                 THEN s1
                 ELSE [s1 EXCEPT
                         !.isAnimating = TRUE,
                         !.deviceTweens =
                             @ \cup {[kind |-> "fadeOut",
                                      targets |-> Range(s.deviceChildren),
                                      node |-> node, fromX |-> fromX,
                                      elapsed |-> 0]}]

\* ------------------------------------------------------------------ sections
\* initSectionsPosition that leaves every section on screen
initSectionsPosition_allZero(s) ==
    [s EXCEPT !.yPercent = [i \in 1..Len(sections) |-> 0]]

initSectionsPosition(s) ==
    [s EXCEPT !.yPercent = [i \in 1..Len(sections) |-> IF i = 1 THEN 0 ELSE 100]]

\* goToSection that leaves the busy flag to renderDeviceStep
goToSection_noBusy(s, nextIndex, direction) ==
    IF nextIndex < 0 \/ nextIndex >= Len(sections)
    THEN s
    ELSE IF s.isAnimating
    THEN s
    ELSE LET s2 == hideOutside(s)
         IN  [s2 EXCEPT
                !.yPercent[nextIndex + 1] = IF direction > 0 THEN 100 ELSE -100,
                !.timelines =
                    @ \cup {[current |-> s.sectionIndex, next |-> nextIndex,
                             direction |-> direction,
                             entryStep |-> getEntryStepIndex(nextIndex, direction),
                             elapsed |-> 0, fired |-> FALSE]}]

\* goToSection that commits the new position when it starts the slide
goToSection_commitEarly(s, nextIndex, direction) ==
    IF nextIndex < 0 \/ nextIndex >= Len(sections)
    THEN s
    ELSE IF s.isAnimating
    THEN s
    ELSE LET s2 == hideOutside([s EXCEPT !.isAnimating = TRUE])
             entryStep == getEntryStepIndex(nextIndex, direction)
         IN  [s2 EXCEPT
                !.sectionIndex = nextIndex,
                !.stepIndex = entryStep,
                !.yPercent[nextIndex + 1] = IF direction > 0 THEN 100 ELSE -100,
                !.timelines =
                    @ \cup {[current |-> s.sectionIndex, next |-> nextIndex,
                             direction |-> direction, entryStep |-> entryStep,
                             elapsed |-> 0, fired |-> FALSE]}]

goToSection(s, nextIndex, direction) ==
    IF nextIndex < 0 \/ nextIndex >= Len(sections)
    THEN s
    ELSE IF s.isAnimating
    THEN s
    ELSE LET s1 == [s EXCEPT !.isAnimating = TRUE]
             current == s.sectionIndex
             entryStep == getEntryStepIndex(nextIndex, direction)
             s2 == hideOutside(s1)
         IN  [s2 EXCEPT
                \* fromTo renders its from-values at once
                !.yPercent[nextIndex + 1] = IF direction > 0 THEN 100 ELSE -100,
                !.timelines =
                    @ \cup {[current |-> current, next |-> nextIndex,
                             direction |-> direction, entryStep |-> entryStep,
                             elapsed |-> 0, fired |-> FALSE]}]

\* the function added to the timeline at SwapPosition
contentSwap(s, tl) ==
    LET s1 == [s EXCEPT !.sectionIndex = tl.next, !.stepIndex = tl.entryStep]
        s2 == renderDeviceStep(s1, tl.next, tl.entryStep)
    IN  showOutside(s2, tl.next, tl.entryStep)

\* ------------------------------------------------------------------ navigation
\* goForward without its busy guard
goForward_noBusyGuard(s) ==
    LET sectionEl == s.sectionIndex
        steps == getStepTemplates(sectionEl)
    IN  IF s.stepIndex < Len(steps) - 1
        THEN LET s1 == [s EXCEPT !.stepIndex = @ + 1]
                 s2 == hideOutside(s1)
                 s3 == renderDeviceStep(s2, sectionEl, s1.stepIndex)
             IN  showOutside(s3, sectionEl, s1.stepIndex)
        ELSE IF s.sectionIndex < Len(sections) - 1
        THEN goToSection(hideOutside([s EXCEPT !.isAnimating = FALSE]),
                         s.sectionIndex + 1, 1)
        ELSE s

\* goForward that tries the next section before the next step
goForward_sectionFirst(s) ==
    IF s.isAnimating
    THEN s
    ELSE LET sectionEl == s.sectionIndex
             steps == getStepTemplates(sectionEl)
         IN  IF s.sectionIndex < Len(sections) - 1
             THEN goToSection(hideOutside(s), s.sectionIndex + 1, 1)
             ELSE IF s.stepIndex < Len(steps) - 1
             THEN LET s1 == [s EXCEPT !.stepIndex = @ + 1]
                      s2 == hideOutside(s1)
                      s3 == renderDeviceStep(s2, sectionEl, s1.stepIndex)
                  IN  showOutside(s3, sectionEl, s1.stepIndex)
             ELSE s

goForward(s) ==
    IF s.isAnimating
    THEN s
    ELSE LET sectionEl == s.sectionIndex
             steps == getStepTemplates(sectionEl)
         IN  IF s.stepIndex < Len(steps) - 1
             THEN LET s1 == [s EXCEPT !.stepIndex = @ + 1]
                      s2 == hideOutside(s1)
                      s3 == renderDeviceStep(s2, sectionEl, s1.stepIndex)
                  IN  showOutside(s3, sectionEl, s1.stepIndex)
             ELSE IF s.sectionIndex < Len(sections) - 1
             THEN goToSection(hideOutside(s), s.sectionIndex + 1, 1)
             ELSE s

\* goBackward that does not hide the outside content of the step it leaves
goBackward_noHide(s) ==
    IF s.isAnimating
    THEN s
    ELSE LET sectionEl == s.sectionIndex
         IN  IF s.stepIndex > 0
             THEN LET s1 == [s EXCEPT !.stepIndex = @ - 1]
                      s3 == renderDeviceStep(s1, sectionEl, s1.stepIndex)
                  IN  showOutside(s3, sectionEl, s1.stepIndex)
             ELSE IF s.sectionIndex > 0
             THEN goToSection(hideOutside(s), s.sectionIndex - 1, -1)
             ELSE s

\* goBackward whose section test is off by one (sectionIndex >= 0)
goBackward_edgeOffByOne(s) ==
    IF s.isAnimating
    THEN s
    ELSE LET sectionEl == s.sectionIndex
         IN  IF s.stepIndex > 0
             THEN LET s1 == [s EXCEPT !.stepIndex = @ - 1]
                      s2 == hideOutside(s1)
                      s3 == renderDeviceStep(s2, sectionEl, s1.stepIndex)
                  IN  showOutside(s3, sectionEl, s1.stepIndex)
             ELSE IF s.sectionIndex >= 0
             THEN goToSection(hideOutside(s), s.sectionIndex - 1, -1)
             ELSE s

goBackward(s) ==
    IF s.isAnimating
    THEN s
    ELSE LET sectionEl == s.sectionIndex
         IN  IF s.stepIndex > 0
             THEN LET s1 == [s EXCEPT !.stepIndex = @ - 1]
                      s2 == hideOutside(s1)
                      s3 == renderDeviceStep(s2, sectionEl, s1.stepIndex)
                  IN  showOutside(s3, sectionEl, s1.stepIndex)
             ELSE IF s.sectionIndex > 0
             THEN goToSection(hideOutside(s), s.sectionIndex - 1, -1)
             ELSE s

\* how a navigation request ended, read off its effect
Outcome(s) ==
    IF isAnimating THEN "busy"
    ELSE IF s.stepIndex # stepIndex THEN "step"
    ELSE IF s.timelines # timelines THEN "section"
    ELSE "edge"

\* ------------------------------------------------------------------ the animation engine
DeviceDue(t) ==
    t.elapsed >= (IF t.kind = "fadeOut" THEN stepFadeOut ELSE stepEnter)

OutsideDue(t) ==
    t.elapsed >= (IF t.kind = "enter" THEN outsideEnter ELSE outsideExit)

SwapDue(tl) == ~tl.fired /\ tl.elapsed >= SwapPosition

SlideDue(tl) == tl.fired /\ tl.elapsed >= sectionSlide

\* no callback of the current frame is still to run
Quiet ==
    /\ \A t \in deviceTweens : ~DeviceDue(t)
    /\ \A t \in outsideTweens : ~OutsideDue(t)
    /\ \A tl \in timelines : ~SwapDue(tl) /\ ~SlideDue(tl)

Advance(S) == { [t EXCEPT !.elapsed = @ + FrameMs] : t \in S }

\* ------------------------------------------------------------------ actions
Init ==
    /\ sections \in Layouts
    /\ deviceContent \in BOOLEAN
    /\ pc = "start"
    /\ destroyed = FALSE
    /\ observer = FALSE
    /\ keydown = FALSE
    /\ sectionIndex = 0
    /\ stepIndex = 0
    /\ isAnimating = FALSE
    /\ activeOutside = << >>
    /\ deviceChildren = << >>
    /\ layerChildren = {}
    /\ yPercent = << >>
    /\ deviceTweens = {}
    /\ outsideTweens = {}
    /\ timelines = {}
    /\ lastEvent = [op |-> "none", result |-> "none"]

\* initObserver whose guard tests the sections only
InitObserver_sectionsOnly ==
    /\ pc = "start"
    /\ IF Len(sections) = 0
       THEN /\ pc' = "aborted"
            /\ UNCHANGED << observer, keydown, sectionIndex, stepIndex, isAnimating,
                            activeOutside, deviceChildren, layerChildren, yPercent,
                            deviceTweens, outsideTweens, timelines >>
       ELSE /\ Commit(showOutside(
                        renderDeviceStep(initSectionsPosition(Cur), 0, 0), 0, 0))
            /\ observer' = TRUE
            /\ keydown' = TRUE
            /\ pc' = "running"
    /\ lastEvent' = [op |-> "initObserver", result |-> pc']
    /\ UNCHANGED << sections, deviceContent, destroyed >>

\* initObserver()
InitObserver ==
    /\ pc = "start"
    /\ IF Len(sections) = 0 \/ ~deviceContent
       THEN /\ pc' = "aborted"
            /\ UNCHANGED << observer, keydown, sectionIndex, stepIndex, isAnimating,
                            activeOutside, deviceChildren, layerChildren, yPercent,
                            deviceTweens, outsideTweens, timelines >>
       ELSE LET s0 == [Cur EXCEPT !.sectionIndex = 0, !.stepIndex = 0,
                                  !.isAnimating = FALSE, !.activeOutside = << >>]
                s1 == initSectionsPosition(s0)
                s2 == renderDeviceStep(s1, 0, 0)
                s3 == showOutside(s2, 0, 0)
            IN  /\ Commit(s3)
                /\ observer' = TRUE
                /\ keydown' = TRUE
                /\ pc' = "running"
    /\ lastEvent' = [op |-> "initObserver", result |-> pc']
    /\ UNCHANGED << sections, deviceContent, destroyed >>

\* Observer onDown: swipe down / wheel down
OnDown ==
    /\ observer
    /\ Quiet
    /\ Commit(goForward(Cur))
    /\ lastEvent' = [op |-> "goForward", result |-> Outcome(goForward(Cur))]
    /\ UNCHANGED << sections, deviceContent, pc, destroyed, observer, keydown >>

\* Observer onUp: swipe up / wheel up
OnUp ==
    /\ observer
    /\ Quiet
    /\ Commit(goBackward(Cur))
    /\ lastEvent' = [op |-> "goBackward", result |-> Outcome(goBackward(Cur))]
    /\ UNCHANGED << sections, deviceContent, pc, destroyed, observer, keydown >>

Keys == {"ArrowDown", "ArrowUp", "Enter"}

onKeyDown(s, key) ==
    LET s1 == IF key = "ArrowDown" THEN goForward(s) ELSE s
    IN  IF key = "ArrowUp" THEN goBackward(s1) ELSE s1

KeyDown(key) ==
    /\ keydown
    /\ Quiet
    /\ Commit(onKeyDown(Cur, key))
    /\ lastEvent' =
         [op |-> CASE key = "ArrowDown" -> "goForward"
                   [] key = "ArrowUp" -> "goBackward"
                   [] OTHER -> "key",
          result |-> IF key \in {"ArrowDown", "ArrowUp"}
                     THEN Outcome(onKeyDown(Cur, key)) ELSE "ignored"]
    /\ UNCHANGED << sections, deviceContent, pc, destroyed, observer, keydown >>

\* the function initObserver returned: () => {} after an abort, destroy otherwise
Destroy ==
    /\ pc # "start"
    /\ Quiet
    /\ IF pc = "aborted"
       THEN UNCHANGED << observer, keydown, sectionIndex, stepIndex, isAnimating,
                         activeOutside, deviceChildren, layerChildren, yPercent,
                         deviceTweens, outsideTweens, timelines >>
       ELSE /\ observer' = FALSE
            /\ keydown' = FALSE
            /\ Commit(hideOutside(Cur))
    /\ destroyed' = TRUE
    /\ lastEvent' = [op |-> "destroy", result |-> pc]
    /\ UNCHANGED << sections, deviceContent, pc >>

\* one frame of the animation engine passes
Tick ==
    /\ Quiet
    /\ deviceTweens # {} \/ outsideTweens # {} \/ timelines # {}
    /\ deviceTweens' = Advance(deviceTweens)
    /\ outsideTweens' = Advance(outsideTweens)
    /\ timelines' = Advance(timelines)
    /\ lastEvent' = [op |-> "tick", result |-> "none"]
    /\ UNCHANGED << sections, deviceContent, pc, destroyed, observer, keydown,
                    sectionIndex, stepIndex, isAnimating, activeOutside,
                    deviceChildren, layerChildren, yPercent >>

\* onComplete of the fade-out tween of renderDeviceStep
FadeOutComplete ==
    \E t \in deviceTweens :
        /\ t.kind = "fadeOut"
        /\ DeviceDue(t)
        /\ deviceChildren' = << t.node >>
        /\ deviceTweens' =
             (deviceTweens \ {t})
             \cup {[kind |-> "enter", targets |-> {t.node}, node |-> t.node,
                    fromX |-> t.fromX, elapsed |-> 0]}
        /\ lastEvent' = [op |-> "fadeOutComplete", result |-> "none"]
        /\ UNCHANGED << sections, deviceContent, pc, destroyed, observer, keydown,
                        sectionIndex, stepIndex, isAnimating, activeOutside,
                        layerChildren, yPercent, outsideTweens, timelines >>

\* onComplete of the enter tween of renderDeviceStep
StepEnterComplete ==
    \E t \in deviceTweens :
        /\ t.kind = "enter"
        /\ DeviceDue(t)
        /\ isAnimating' = FALSE
        /\ deviceTweens' = deviceTweens \ {t}
        /\ lastEvent' = [op |-> "stepEnterComplete", result |-> "none"]
        /\ UNCHANGED << sections, deviceContent, pc, destroyed, observer, keydown,
                        sectionIndex, stepIndex, activeOutside, deviceChildren,
                        layerChildren, yPercent, outsideTweens, timelines >>

\* the callback goToSection adds to its timeline at SwapPosition
ContentSwap ==
    \E tl \in timelines :
        /\ SwapDue(tl)
        /\ LET s1 == [Cur EXCEPT
                        !.timelines = (@ \ {tl}) \cup {[tl EXCEPT !.fired = TRUE]}]
           IN  Commit(contentSwap(s1, tl))
        /\ lastEvent' = [op |-> "contentSwap", result |-> "none"]
        /\ UNCHANGED << sections, deviceContent, pc, destroyed, observer, keydown >>

\* a timeline whose onComplete releases the busy flag
SlideComplete_release ==
    \E tl \in timelines :
        /\ SlideDue(tl)
        /\ yPercent' = [yPercent EXCEPT
                          ![tl.current + 1] = IF tl.direction > 0 THEN -100 ELSE 100,
                          ![tl.next + 1] = 0]
        /\ timelines' = timelines \ {tl}
        /\ isAnimating' = FALSE
        /\ lastEvent' = [op |-> "slideComplete", result |-> "none"]
        /\ UNCHANGED << sections, deviceContent, pc, destroyed, observer, keydown,
                        sectionIndex, stepIndex, activeOutside,
                        deviceChildren, layerChildren, deviceTweens, outsideTweens >>

\* the two slide tweens of the timeline end; its onComplete is empty
SlideComplete ==
    \E tl \in timelines :
        /\ SlideDue(tl)
        /\ yPercent' = [yPercent EXCEPT
                          ![tl.current + 1] = IF tl.direction > 0 THEN -100 ELSE 100,
                          ![tl.next + 1] = 0]
        /\ timelines' = timelines \ {tl}
        /\ lastEvent' = [op |-> "slideComplete", result |-> "none"]
        /\ UNCHANGED << sections, deviceContent, pc, destroyed, observer, keydown,
                        sectionIndex, stepIndex, isAnimating, activeOutside,
                        deviceChildren, layerChildren, deviceTweens, outsideTweens >>

\* the enter tween of an outside node ends (it has no callback)
OutsideEnterComplete ==
    \E t \in outsideTweens :
        /\ t.kind = "enter"
        /\ OutsideDue(t)
        /\ outsideTweens' = outsideTweens \ {t}
        /\ lastEvent' = [op |-> "outsideEnterComplete", result |-> "none"]
        /\ UNCHANGED << sections, deviceContent, pc, destroyed, observer, keydown,
                        sectionIndex, stepIndex, isAnimating, activeOutside,
                        deviceChildren, layerChildren, yPercent, deviceTweens,
                        timelines >>

\* onComplete of the exit tween of hideOutside: node.remove()
OutsideExitComplete ==
    \E t \in outsideTweens :
        /\ t.kind = "exit"
        /\ OutsideDue(t)
        /\ layerChildren' = layerChildren \ {t.node}
        /\ outsideTweens' = outsideTweens \ {t}
        /\ lastEvent' = [op |-> "outsideExitComplete", result |-> "none"]
        /\ UNCHANGED << sections, deviceContent, pc, destroyed, observer, keydown,
                        sectionIndex, stepIndex, isAnimating, activeOutside,
                        deviceChildren, yPercent, deviceTweens, timelines >>

Next ==
    \/ InitObserver
    \/ OnDown
    \/ OnUp
    \/ \E key \in Keys : KeyDown(key)
    \/ Destroy
    \/ Tick
    \/ FadeOutComplete
    \/ StepEnterComplete
    \/ ContentSwap
    \/ SlideComplete
    \/ OutsideEnterComplete
    \/ OutsideExitComplete

Spec == Init /\ [][Next]_vars

\* ------------------------------------------------------------------ properties
StepCountOf(i) == Len(sections[i + 1].steps)

Position == << sectionIndex, stepIndex >>

ForwardRequest == OnDown \/ KeyDown("ArrowDown")

BackwardRequest == OnUp \/ KeyDown("ArrowUp")

\* C1: while isAnimating is true a forward or backward request (gesture or arrow
\* key) changes nothing: position, busy flag, active outside set, DOM and the
\* started animations stay as they are; and the step that clears the busy flag
\* moves nothing either, so a dropped request is not replayed.
C1_BusyRequestDropped ==
    [][ /\ ((ForwardRequest \/ BackwardRequest) /\ isAnimating)
            => (UNCHANGED progVars /\ lastEvent'.result = "busy")
        /\ (isAnimating /\ ~isAnimating')
            => UNCHANGED << sectionIndex, stepIndex, activeOutside, deviceChildren,
                            layerChildren, yPercent, outsideTweens, timelines >>
      ]_vars

C1_Witness ==
    /\ isAnimating
    /\ lastEvent.op \in {"goForward", "goBackward"}
    /\ lastEvent.result = "busy"

\* C2 as stated: after initialization 0 <= sectionIndex < sectionCount and
\* 0 <= stepIndex < stepCountOf(sectionIndex), for every layout (sections with
\* zero or more step templates).
C2_Original ==
    pc = "running" =>
        /\ 0 <= sectionIndex /\ sectionIndex < Len(sections)
        /\ 0 <= stepIndex /\ stepIndex < StepCountOf(sectionIndex)

\* C2 amended: after initialization 0 <= sectionIndex < sectionCount, and
\* 0 <= stepIndex < stepCountOf(sectionIndex) when the current section has a
\* step template, stepIndex = 0 when it has none.
C2_PositionInRange ==
    pc = "running" =>
        /\ 0 <= sectionIndex /\ sectionIndex < Len(sections)
        /\ IF StepCountOf(sectionIndex) = 0
           THEN stepIndex = 0
           ELSE 0 <= stepIndex /\ stepIndex < StepCountOf(sectionIndex)

C2_Witness ==
    /\ pc = "running"
    /\ sectionIndex = 1
    /\ StepCountOf(1) = 0
    /\ lastEvent.op = "contentSwap"

\* step a section with n step templates is entered at, going forward: step 1 if
\* it exists, else step 0
ForwardEntry(n) == IF n >= 2 THEN 1 ELSE 0

\* step a section with n step templates is entered at, going backward: its last
\* step (step 0 for a section without step templates)
BackwardEntry(n) == IF n >= 1 THEN n - 1 ELSE 0

AtLastStep == stepIndex >= StepCountOf(sectionIndex) - 1

\* sections A (3 steps) and B (1 step), B last
ScenarioAB ==
    /\ Len(sections) = 2
    /\ StepCountOf(0) = 3
    /\ StepCountOf(1) = 1

\* C3: an accepted forward request at the last step of a section i that is not
\* the last starts a transition whose content swap commits position
\* (i+1, min(1, last step index of i+1)).  With A of 3 steps and last section B of
\* 1 step, accepted forward requests lead (A,0) -> (A,1) -> (A,2) -> (B,0), and a
\* forward request at (B,0) changes nothing.
C3_ForwardEntersNextSection ==
    [][ /\ (ForwardRequest /\ ~isAnimating /\ AtLastStep
              /\ sectionIndex < Len(sections) - 1)
            => /\ Position' = Position
               /\ \E tl \in timelines' :
                     tl.direction > 0 /\ tl.current = sectionIndex /\ ~tl.fired
        /\ (ContentSwap /\ \E tl \in timelines : tl.direction > 0)
            => Position' = << sectionIndex + 1,
                              ForwardEntry(StepCountOf(sectionIndex + 1)) >>
        /\ (ScenarioAB /\ ForwardRequest /\ ~isAnimating)
            => Position' = CASE Position = << 0, 0 >> -> << 0, 1 >>
                             [] Position = << 0, 1 >> -> << 0, 2 >>
                             [] OTHER -> Position
        /\ (ScenarioAB /\ ContentSwap /\ Position = << 0, 2 >>)
            => Position' = << 1, 0 >>
      ]_vars

C3_Witness ==
    /\ ScenarioAB
    /\ Position = << 1, 0 >>
    /\ ~isAnimating
    /\ lastEvent = [op |-> "goForward", result |-> "edge"]

\* C4: an accepted backward request at step 0 of a section i > 0 starts a
\* transition whose content swap commits position (i-1, last step index of i-1).
C4_BackwardEntersPreviousSection ==
    [][ /\ (BackwardRequest /\ ~isAnimating /\ stepIndex = 0 /\ sectionIndex > 0)
            => /\ Position' = Position
               /\ \E tl \in timelines' :
                     tl.direction < 0 /\ tl.current = sectionIndex /\ ~tl.fired
        /\ (ContentSwap /\ \E tl \in timelines : tl.direction < 0)
            => Position' = << sectionIndex - 1,
                              BackwardEntry(StepCountOf(sectionIndex - 1)) >>
      ]_vars

C4_Witness ==
    /\ lastEvent.op = "contentSwap"
    /\ Position = << 0, 2 >>
    /\ StepCountOf(0) = 3

\* C5: a backward request at (0, 0) and a forward request at the last step of
\* the last section change nothing and start no animation.
C5_EdgeRequestIsNoOp ==
    [][ /\ (BackwardRequest /\ ~isAnimating /\ Position = << 0, 0 >>)
            => (UNCHANGED progVars /\ lastEvent'.result = "edge")
        /\ (ForwardRequest /\ ~isAnimating /\ AtLastStep
              /\ sectionIndex = Len(sections) - 1)
            => (UNCHANGED progVars /\ lastEvent'.result = "edge")
      ]_vars

C5_Witness ==
    /\ lastEvent = [op |-> "goBackward", result |-> "edge"]
    /\ Position = << 0, 0 >>
    /\ activeOutside # << >>

\* C6: an accepted forward request below the last step of a section moves to
\* the next step of the same section and starts no section slide, and between
\* requests the step does not move; so N-1 accepted forward requests from step 0
\* visit the steps 0, 1, ..., N-1 in order.
C6_StepsInOrder ==
    [][ /\ (ForwardRequest /\ ~isAnimating /\ ~AtLastStep)
            => /\ stepIndex' = stepIndex + 1
               /\ sectionIndex' = sectionIndex
               /\ timelines' = timelines
               /\ yPercent' = yPercent
        /\ (~ForwardRequest /\ ~BackwardRequest /\ ~ContentSwap)
            => Position' = Position
      ]_vars

C6_Witness ==
    /\ lastEvent = [op |-> "goForward", result |-> "step"]
    /\ StepCountOf(sectionIndex) = MaxSteps
    /\ stepIndex = MaxSteps - 1
    /\ timelines = {}

\* templates of the active outside nodes
ActiveTemplates == { n.tpl : n \in Range(activeOutside) }

\* every active node is a clone of another template of the current section,
\* attached to a layer
OneInstanceEach ==
    /\ Cardinality(ActiveTemplates) = Len(activeOutside)
    /\ \A n \in Range(activeOutside) : n.sec = sectionIndex /\ n \in layerChildren

\* outside templates of section i whose data-step attribute is the number step
Matching(i, step) ==
    { k \in 1..Len(sections[i + 1].outside) :
        sections[i + 1].outside[k].step = ToString(step) }

\* those of them showOutside can show: the position has a layer and the
\* template content has an element
Showable(i, step) ==
    { k \in Matching(i, step) :
        /\ sections[i + 1].outside[k].position \in OutsideLayers
        /\ sections[i + 1].outside[k].hasNode }

\* the handler that ran last called showOutside(sections[sectionIndex], stepIndex)
ShowJustCalled ==
    \/ lastEvent = [op |-> "initObserver", result |-> "running"]
    \/ lastEvent.op = "contentSwap"
    \/ (lastEvent.op \in {"goForward", "goBackward"} /\ lastEvent.result = "step")

\* hideOutside() called now leaves no active node and an exit tween on every
\* node that was active
HideEmpties ==
    pc = "running" =>
        /\ hideOutside(Cur).activeOutside = << >>
        /\ \A n \in Range(activeOutside) :
              [kind |-> "exit", node |-> n, elapsed |-> 0]
                  \in hideOutside(Cur).outsideTweens

\* C7 as stated: right after showOutside(section, step) the active set holds
\* exactly one instance per outside template of the section whose data-step
\* equals step; right after hideOutside() it is empty.
C7_Original ==
    /\ ShowJustCalled => (ActiveTemplates = Matching(sectionIndex, stepIndex)
                          /\ OneInstanceEach)
    /\ HideEmpties

\* C7 amended: right after showOutside(section, step) the active set holds
\* exactly one instance per outside template of the section whose data-step
\* equals step, whose data-position names an existing outside layer and whose
\* content has an element; right after hideOutside() it is empty, and a node
\* with an exit tween keeps it until the tween completes, which removes the
\* node from its layer.
C7_ShowHideOutside ==
    /\ [](ShowJustCalled => (ActiveTemplates = Showable(sectionIndex, stepIndex)
                             /\ OneInstanceEach))
    /\ []HideEmpties
    /\ [][ \A t \in outsideTweens :
             t.kind = "exit" =>
                \/ \E u \in outsideTweens' :
                      u.kind = "exit" /\ u.node = t.node /\ u.node \in layerChildren'
                \/ (OutsideExitComplete /\ t.node \notin layerChildren')
         ]_vars

C7_Witness ==
    /\ lastEvent = [op |-> "goForward", result |-> "step"]
    /\ SectionAt(sectionIndex).outside = OutsideMixed
    /\ stepIndex = 1
    /\ Matching(sectionIndex, stepIndex) = {2, 3}
    /\ ActiveTemplates = {2}
    /\ \E t \in outsideTweens : t.kind = "exit"

\* C8 as stated: whenever isAnimating is false the active outside set is the
\* instances of exactly the outside templates of the current section whose
\* data-step equals stepIndex.
C8_Original ==
    (pc = "running" /\ ~isAnimating) =>
        /\ ActiveTemplates = Matching(sectionIndex, stepIndex)
        /\ OneInstanceEach

\* C8 amended: until the teardown function is called, whenever isAnimating is
\* false the active outside set is the instances of exactly the outside
\* templates of the current section whose data-step equals stepIndex, whose
\* data-position names an existing outside layer and whose content has an
\* element.
C8_ActiveMatchesPosition ==
    (pc = "running" /\ ~destroyed /\ ~isAnimating) =>
        /\ ActiveTemplates = Showable(sectionIndex, stepIndex)
        /\ OneInstanceEach

C8_Witness ==
    /\ pc = "running" /\ ~destroyed /\ ~isAnimating
    /\ SectionAt(sectionIndex).outside = OutsidePlain
    /\ stepIndex = 1
    /\ lastEvent.op = "stepEnterComplete"
    /\ { n.position : n \in Range(activeOutside) } = {"top"}

\* C9: once the teardown function has been called, no input listener is left
\* and the active outside set is empty and stays empty, also when it is called
\* while a section transition is in flight.
C9_TeardownClearsOutside ==
    destroyed => (~observer /\ ~keydown /\ activeOutside = << >>)

\* C10: with no .section element or no #device-content element initObserver
\* aborts completely: nothing is positioned, rendered, animated or registered,
\* and the teardown function it returns changes nothing.
C10_AbortIsComplete ==
    (pc # "start" /\ (Len(sections) = 0 \/ ~deviceContent)) =>
        /\ pc = "aborted"
        /\ ~observer /\ ~keydown
        /\ ~isAnimating
        /\ activeOutside = << >>
        /\ yPercent = << >>
        /\ deviceChildren = << >>
        /\ layerChildren = {}
        /\ deviceTweens = {} /\ outsideTweens = {} /\ timelines = {}

C10_Witness ==
    /\ pc = "aborted"
    /\ destroyed
    /\ Len(sections) = MaxSections
    /\ ~deviceContent

\* a section transition starts in this step: a timeline that was not there
TransitionStarts == \E tl \in timelines' : tl \notin timelines /\ tl.elapsed = 0

\* C11: a section transition is never started while the slide timeline or the
\* content-entry animation of another one is in flight; at most one slide
\* runs at any time, and a content swap commits sectionIndex for the only
\* timeline there is.
C11_TransitionsSerialized ==
    /\ [](Cardinality(timelines) <= 1)
    /\ [][ /\ TransitionStarts
               => (timelines = {} /\ deviceTweens = {} /\ ~isAnimating)
           /\ ContentSwap
               => \E tl \in timelines :
                     timelines = {tl} /\ sectionIndex = tl.current
                     /\ sectionIndex' = tl.next
         ]_vars

C11_Witness ==
    /\ lastEvent = [op |-> "goBackward", result |-> "section"]
    /\ Cardinality(timelines) = 1
    /\ sectionIndex = 1
    /\ deviceChildren # << >>

\* something is in flight that ends in the enter tween's onComplete: a timeline
\* whose content swap is still to come, or a fade-out or enter tween on the
\* device content.  Nothing else can set isAnimating to false.
ReleasePending ==
    \/ \E tl \in timelines : ~tl.fired
    \/ deviceTweens # {}

\* C12: the busy guard is transient: whenever isAnimating is true an animation
\* is in flight whose completion leads to its release, for every layout,
\* including target sections with no step template or with a step template
\* that has no element content (a busy flag with nothing pending can never
\* become false again, since every request is dropped while it is set).
C12_BusyIsTransient == isAnimating => ReleasePending

\* the clone of the step template of the current position
CurrentStepNode == [sec |-> sectionIndex, step |-> stepIndex]

\* C13: once set, isAnimating is cleared only by the completion of the enter
\* tween of the device content of the current position, after that content
\* has replaced the old one; the end of the slide timeline, of the fade-out
\* and of outside enter/exit tweens leave the flag as it is.
C13_OnlyEnterCompletionReleases ==
    [][ /\ (isAnimating /\ ~isAnimating')
            => /\ StepEnterComplete
               /\ deviceChildren = << CurrentStepNode >>
               /\ \E t \in deviceTweens :
                     t.kind = "enter" /\ t.node = CurrentStepNode
                     /\ t.elapsed >= stepEnter
        /\ (SlideComplete \/ FadeOutComplete \/ OutsideEnterComplete
              \/ OutsideExitComplete \/ Tick)
            => isAnimating' = isAnimating
      ]_vars

C13_Witness ==
    /\ lastEvent.op = "slideComplete"
    /\ isAnimating
    /\ \E t \in deviceTweens : t.kind = "fadeOut"

\* the step template the position (i, step) names has an element to clone
HasContent(i, step) ==
    /\ step < Len(sections[i + 1].steps)
    /\ sections[i + 1].steps[step + 1].hasNode

\* C14: in a section transition isAnimating is set and the active outside set
\* emptied at the start; sectionIndex and stepIndex keep their old values, and
\* nothing of the entry step is rendered or shown, until the content-swap
\* callback; the callback fires before the slide has completed, commits
\* sectionIndex and stepIndex together, and starts the render of the entry
\* step and shows its outside decorations.
C14_TransitionOrder ==
    /\ [](\A tl \in timelines :
            ~tl.fired => /\ isAnimating
                         /\ activeOutside = << >>
                         /\ deviceTweens = {}
                         /\ sectionIndex = tl.current)
    /\ [][ /\ TransitionStarts
               => (isAnimating' /\ activeOutside' = << >> /\ Position' = Position)
           /\ ((\E tl \in timelines : ~tl.fired) /\ ~ContentSwap)
               => (Position' = Position /\ deviceChildren' = deviceChildren)
           /\ ContentSwap
               => \E tl \in timelines :
                     /\ ~tl.fired
                     /\ tl.elapsed < sectionSlide
                     /\ [tl EXCEPT !.fired = TRUE] \in timelines'
                     /\ Position' = << tl.next, tl.entryStep >>
                     /\ sectionIndex' # sectionIndex
                     /\ HasContent(tl.next, tl.entryStep)
                          => \E t \in deviceTweens' :
                                /\ t.kind = "fadeOut" /\ t.elapsed = 0
                                /\ t.node = [sec |-> tl.next, step |-> tl.entryStep]
                     /\ { n.tpl : n \in Range(activeOutside') }
                          = Showable(tl.next, tl.entryStep)
                     /\ \A n \in Range(activeOutside') : n.sec = tl.next
         ]_vars

C14_Witness ==
    /\ lastEvent.op = "contentSwap"
    /\ \E tl \in timelines : tl.fired /\ tl.direction < 0 /\ tl.elapsed < sectionSlide
    /\ activeOutside # << >>
    /\ deviceTweens # {}

\* C15: renderDeviceStep called for a step that has no template, or whose
\* template has no element to clone, is a no-op: the device content keeps its
\* children, isAnimating keeps the value it had on entry, and sectionIndex,
\* stepIndex and the active outside set are untouched; so a step change to
\* such a step leaves the flag false and a content swap to it leaves it true.
C15_RenderWithoutTemplateIsNoOp ==
    /\ [](pc = "running" =>
            \A i \in 0..(Len(sections) - 1) : \A step \in 0..MaxSteps :
                ~HasContent(i, step) =>
                    LET r == renderDeviceStep(Cur, i, step)
                    IN  /\ r.deviceChildren = deviceChildren
                        /\ r.isAnimating = isAnimating
                        /\ r.sectionIndex = sectionIndex
                        /\ r.stepIndex = stepIndex
                        /\ r.activeOutside = activeOutside
                        /\ r.deviceTweens \subseteq deviceTweens)
    /\ [][ /\ ((ForwardRequest \/ BackwardRequest) /\ ~isAnimating
                 /\ stepIndex' # stepIndex /\ ~HasContent(sectionIndex', stepIndex'))
               => (~isAnimating' /\ deviceChildren' = deviceChildren
                   /\ deviceTweens' = deviceTweens)
           /\ (ContentSwap /\ ~HasContent(sectionIndex', stepIndex'))
               => (isAnimating' /\ deviceChildren' = deviceChildren
                   /\ deviceTweens' = deviceTweens)
         ]_vars

C15_Witness ==
    /\ lastEvent = [op |-> "goForward", result |-> "step"]
    /\ ~HasContent(sectionIndex, stepIndex)
    /\ ~isAnimating
    /\ deviceChildren = << [sec |-> sectionIndex, step |-> stepIndex - 1] >>

\* C16: a section i > 0 with at least 2 steps is never at step 0 through a
\* forward request: the position becomes (i, 0) only by an accepted backward
\* request at (i, 1), and the render of step 0 of such a section is started
\* only by a backward request.
C16_StepZeroOnlyBackward ==
    [][ \A i \in 1..(Len(sections) - 1) :
          StepCountOf(i) >= 2 =>
            /\ (Position' = << i, 0 >> /\ Position # << i, 0 >>)
                 => (BackwardRequest /\ ~isAnimating /\ Position = << i, 1 >>)
            /\ (\E t \in deviceTweens' :
                  t \notin deviceTweens /\ t.kind = "fadeOut" /\ t.elapsed = 0
                  /\ t.node = [sec |-> i, step |-> 0])
                 => (BackwardRequest /\ Position = << i, 1 >>)
      ]_vars

C16_Witness ==
    /\ lastEvent = [op |-> "goBackward", result |-> "step"]
    /\ Position = << 1, 0 >>
    /\ StepCountOf(1) >= 2
    /\ \E t \in deviceTweens : t.node = [sec |-> 1, step |-> 0]

\* every step template of the page has an element to clone
AllStepsHaveContent ==
    \A i \in 1..Len(sections) : \A k \in 1..Len(sections[i].steps) :
        sections[i].steps[k].hasNode

\* C17 as stated: whenever isAnimating is false and every step template has
\* element content, the device content holds exactly one child, the clone of
\* the step template at stepIndex of sections[sectionIndex].
C17_Original ==
    (pc = "running" /\ ~isAnimating /\ AllStepsHaveContent) =>
        deviceChildren = << CurrentStepNode >>

\* C17 amended: whenever isAnimating is false, the current section has at
\* least one step template and every step template has element content, the
\* device content holds exactly one child, the clone of the step template at
\* stepIndex of sections[sectionIndex].
C17_DeviceContentCurrent ==
    (pc = "running" /\ ~isAnimating /\ AllStepsHaveContent
       /\ StepCountOf(sectionIndex) >= 1) =>
        /\ deviceChildren = << CurrentStepNode >>
        /\ HasContent(sectionIndex, stepIndex)

C17_Witness ==
    /\ pc = "running" /\ ~isAnimating /\ AllStepsHaveContent
    /\ StepCountOf(0) = 0
    /\ sectionIndex = 1
    /\ deviceChildren = << CurrentStepNode >>
    /\ lastEvent.op = "stepEnterComplete"

\* The animation engine keeps ticking and runs every callback that is due:
\* every started animation eventually completes.
FairSpec ==
    /\ Spec
    /\ WF_vars(Tick)
    /\ WF_vars(FadeOutComplete)
    /\ WF_vars(StepEnterComplete)
    /\ WF_vars(ContentSwap)
    /\ WF_vars(SlideComplete)
    /\ WF_vars(OutsideEnterComplete)
    /\ WF_vars(OutsideExitComplete)

\* the clone with this id of outside template k of section i is attached to a
\* layer and no longer in the active set
Dropped(i, k, id) ==
    \E n \in layerChildren :
        n.sec = i /\ n.tpl = k /\ n.id = id /\ n \notin Range(activeOutside)

Attached(i, k, id) ==
    \E n \in layerChildren : n.sec = i /\ n.tpl = k /\ n.id = id

\* ids FreshId hands out while the previous clone of a template is still exiting
CloneIds == 0..1

\* C18: every outside node attached to a layer is in the active set or has a
\* pending exit tween (whose completion removes it), and when every started
\* animation eventually completes every node dropped from the active set is
\* eventually removed from its layer.
C18_NoOrphanOutside ==
    /\ [](\A n \in layerChildren :
            /\ n.id \in CloneIds
            /\ \/ n \in Range(activeOutside)
               \/ \E t \in outsideTweens :
                     t.kind = "exit" /\ t.node = n /\ t.elapsed <= outsideExit + FrameMs)
    /\ \A i \in 0..(MaxSections - 1) : \A k \in 1..Len(OutsideMixed) : \A id \in CloneIds :
          Dropped(i, k, id) ~> ~Attached(i, k, id)

C18_Witness ==
    /\ lastEvent.op = "outsideExitComplete"
    /\ ~destroyed
    /\ Len(activeOutside) > 0
    /\ layerChildren = Range(activeOutside)

\* C19: whenever the navigator is idle (isAnimating false) no section slide is
\* in progress, sections[sectionIndex] is the one section at yPercent 0 and
\* every other section is at yPercent -100 or 100.
C19_RestingPositions ==
    (pc = "running" /\ ~isAnimating) =>
        /\ timelines = {}
        /\ DOMAIN yPercent = 1..Len(sections)
        /\ \A i \in 1..Len(sections) :
              IF i = sectionIndex + 1
              THEN yPercent[i] = 0
              ELSE yPercent[i] \in {-100, 100}

C19_Witness ==
    /\ pc = "running" /\ ~isAnimating
    /\ sectionIndex = 1
    /\ yPercent = << -100, 0 >>
    /\ lastEvent.op = "stepEnterComplete"

====
